---- MODULE Spec2Model ----
(***************************************************************************)
(* A model of bestnite/font-mapper (mapper.go): the glyph existence test,  *)
(* the outline comparator, the rune resolver and the batch mapper with its *)
(* WaitGroup and permit channel.                                           *)
(*                                                                         *)
(* The font-parsing library (freetype/truetype) is outside the repository. *)
(* A parsed font is modelled by what the code asks of it: a cmap (rune ->  *)
(* glyph index, 0 when unmapped) and, per glyph index, the answers of      *)
(* face.GlyphBounds (ok, bounds.Empty(), advance) and of GlyphBuf.Load     *)
(* (error or Ends/Points).                                                 *)
(***************************************************************************)
EXTENDS Integers, Sequences, FiniteSets, TLC

\* ------------------------------------------------------------------------
\* Program constants
\* ------------------------------------------------------------------------
\* for j := 0x4e00; j <= 0x9fff; j++
CandidateStart == 19968
CandidateEnd == 40959
\* if char >= 0xE000 && char <= 0xF8FF
PUAStart == 57344
PUAEnd == 63743
\* tolerance := fixed.Int26_6(10)
Tolerance == 10
\* concurrent: 10, sem: make(chan struct{}, 10)
DefaultConcurrent == 10
\* rune and fixed.Int26_6 are int32
MaxInt32 == 2147483647
MinInt32 == (-2147483647) - 1

\* ------------------------------------------------------------------------
\* Bounds of the model
\* ------------------------------------------------------------------------
\* longest outline (in points) handed to compareGlyphOutlines directly
MaxPoints == 2
\* goroutines one Mapping call may start before the model stops dispatching
MaxDispatch == 3
\* largest n passed to SetConcurrent
MaxConcurrent == 2
\* Mapping calls made on one mapper
MaxCalls == 2

\* ------------------------------------------------------------------------
\* int32 arithmetic (Go wraps on signed overflow)
\* ------------------------------------------------------------------------
\* i++ on an int32
Inc32(i) == IF i = MaxInt32 THEN MinInt32 ELSE i + 1

\* a - b on int32 operands, wrapped into [MinInt32, MaxInt32]
Sub32(a, b) ==
  IF b < 0 /\ a > MaxInt32 + b
    THEN ((a + MinInt32) - b) + MinInt32
  ELSE IF b > 0 /\ a < MinInt32 + b
    THEN ((a - MinInt32) - b) - MinInt32
  ELSE a - b

\* -x on an int32: -MinInt32 wraps to MinInt32
Neg32(x) == IF x = MinInt32 THEN MinInt32 ELSE 0 - x

\* ------------------------------------------------------------------------
\* The font library as the code consumes it
\* ------------------------------------------------------------------------
NilFont == [nil |-> TRUE]

\* font.Index(char): 0 when the cmap has no entry
Index(font, char) ==
  IF char \in DOMAIN font.cmap THEN font.cmap[char] ELSE 0

\* face.GlyphBounds(char): the metrics of the glyph the rune maps to
\* (glyph 0, .notdef, for an unmapped rune)
GlyphBounds(font, char) ==
  LET gl == font.glyf[Index(font, char)]
  IN  [ok |-> gl.ok, empty |-> gl.empty, advance |-> gl.advance]

\* buf.Load(font, fixed.I(1000), index, font.HintingNone)
Load(font, index) ==
  LET gl == font.glyf[index]
  IN  [err |-> ~gl.load, Ends |-> gl.Ends, Points |-> gl.Points]

\* ------------------------------------------------------------------------
\* hasGlyph
\* ------------------------------------------------------------------------
hasGlyph(font, char) ==
  IF font = NilFont THEN FALSE
  ELSE
    LET index == Index(font, char)
        gb    == GlyphBounds(font, char)
    IN  IF index = 0 /\ char # 0 THEN FALSE
        ELSE IF ~gb.ok THEN FALSE
        ELSE IF gb.empty /\ gb.advance = 0 THEN FALSE
        ELSE IF char >= PUAStart /\ char <= PUAEnd
          THEN IF gb.advance > 0 THEN TRUE
               ELSE IF ~gb.empty THEN TRUE
               ELSE IF index > 0 THEN TRUE
               ELSE FALSE
        ELSE IF index > 0 THEN TRUE
        ELSE FALSE

\* ------------------------------------------------------------------------
\* compareGlyphOutlines
\* ------------------------------------------------------------------------
\* |a - b| as the code computes it: subtract, then negate when negative
AbsDiff32(a, b) ==
  LET d == Sub32(a, b) IN IF d < 0 THEN Neg32(d) ELSE d

\* one iteration of the coordinate loop: TRUE when the pair is within tolerance
PointWithin(p1, p2) ==
  ~(AbsDiff32(p1.X, p2.X) > Tolerance \/ AbsDiff32(p1.Y, p2.Y) > Tolerance)

compareGlyphOutlines(buf1, buf2) ==
  IF Len(buf1.Ends) # Len(buf2.Ends) THEN FALSE
  ELSE IF \E i \in 1..Len(buf1.Ends) : buf1.Ends[i] # buf2.Ends[i] THEN FALSE
  ELSE IF Len(buf1.Points) # Len(buf2.Points) THEN FALSE
  ELSE \A i \in 1..Len(buf1.Points) : PointWithin(buf1.Points[i], buf2.Points[i])

\* ------------------------------------------------------------------------
\* GlyphOutlineEqual, with the loads and comparator calls it made
\* ------------------------------------------------------------------------
GlyphOutlineEqual(g, specialUnicode, standardUnicode) ==
  LET index1 == Index(g.specialFont, specialUnicode)
      index2 == Index(g.standardFont, standardUnicode)
      buf1   == Load(g.specialFont, index1)
      buf2   == Load(g.standardFont, index2)
  IN  IF index1 = 0 \/ index2 = 0
        THEN [eq |-> FALSE, loads |-> 0, compares |-> 0]
      ELSE IF buf1.err
        THEN [eq |-> FALSE, loads |-> 1, compares |-> 0]
      ELSE IF buf2.err
        THEN [eq |-> FALSE, loads |-> 2, compares |-> 0]
      ELSE [eq |-> compareGlyphOutlines(buf1, buf2), loads |-> 2, compares |-> 1]

\* ------------------------------------------------------------------------
\* MappingRune
\* ------------------------------------------------------------------------
\* The loop visits every j of the range, and a j the standard cmap does not
\* map takes the `continue` (hasGlyph returns false on index == 0). NextMapped
\* fast-forwards over such j: the least mapped k >= j of the range, or
\* CandidateEnd + 1 when the loop would run out.
NextMapped(font, j) ==
  LET ks == {k \in DOMAIN font.cmap :
               k >= j /\ k <= CandidateEnd /\ font.cmap[k] # 0}
  IN  IF ks = {} THEN CandidateEnd + 1
      ELSE CHOOSE k \in ks : \A m \in ks : k <= m

RECURSIVE ScanFromFirstOnly(_, _, _, _, _)
\* a scan that gives up at the first candidate that does not compare equal
ScanFromFirstOnly(g, unicode, j, loads, compares) ==
  LET k == NextMapped(g.standardFont, j)
  IN  IF k > CandidateEnd
        THEN [specialRune |-> 0, standardRune |-> 0, ok |-> FALSE,
              scanned |-> (CandidateEnd - CandidateStart) + 1,
              loads |-> loads, compares |-> compares]
      ELSE IF ~hasGlyph(g.standardFont, k)
        THEN ScanFromFirstOnly(g, unicode, k + 1, loads, compares)
      ELSE
        LET e == GlyphOutlineEqual(g, unicode, k)
        IN  [specialRune |-> IF e.eq THEN unicode ELSE 0,
             standardRune |-> IF e.eq THEN k ELSE 0, ok |-> e.eq,
             scanned |-> (k - CandidateStart) + 1,
             loads |-> loads + e.loads, compares |-> compares + e.compares]

RECURSIVE ScanFrom(_, _, _, _, _)
\* the for loop from candidate j on, with the loads and comparisons so far
ScanFrom(g, unicode, j, loads, compares) ==
  LET k == NextMapped(g.standardFont, j)
  IN  IF k > CandidateEnd
        THEN [specialRune |-> 0, standardRune |-> 0, ok |-> FALSE,
              scanned |-> (CandidateEnd - CandidateStart) + 1,
              loads |-> loads, compares |-> compares]
      ELSE IF ~hasGlyph(g.standardFont, k)
        THEN ScanFrom(g, unicode, k + 1, loads, compares)
      ELSE
        LET e == GlyphOutlineEqual(g, unicode, k)
        IN  IF e.eq
              THEN [specialRune |-> unicode, standardRune |-> k, ok |-> TRUE,
                    scanned |-> (k - CandidateStart) + 1,
                    loads |-> loads + e.loads,
                    compares |-> compares + e.compares]
            ELSE ScanFrom(g, unicode, k + 1, loads + e.loads,
                          compares + e.compares)

\* a resolver that scans without testing the special font first
MappingRuneNoGuard(g, unicode) == ScanFrom(g, unicode, CandidateStart, 0, 0)

MappingRune(g, unicode) ==
  IF ~hasGlyph(g.specialFont, unicode)
    THEN [specialRune |-> 0, standardRune |-> 0, ok |-> FALSE,
          scanned |-> 0, loads |-> 0, compares |-> 0]
  ELSE ScanFrom(g, unicode, CandidateStart, 0, 0)

\* ------------------------------------------------------------------------
\* NewGlyphOutlineMapper
\* ------------------------------------------------------------------------
\* truetype.Parse(data): a buffer is either malformed or holds a font
Malformed == [malformed |-> TRUE]

NoMapper == [nil |-> TRUE]

\* a constructor that reports every parse failure as the special font's
NewGlyphOutlineMapperOneError(specialFontData, standardFontData) ==
  IF specialFontData = Malformed \/ standardFontData = Malformed
    THEN [mapper |-> NoMapper, err |-> "parse special font failed"]
  ELSE [mapper |-> [specialFont |-> specialFontData,
                    standardFont |-> standardFontData,
                    concurrent |-> DefaultConcurrent,
                    semCap |-> DefaultConcurrent],
        err |-> "nil"]

NewGlyphOutlineMapper(specialFontData, standardFontData) ==
  IF specialFontData = Malformed
    THEN [mapper |-> NoMapper, err |-> "parse special font failed"]
  ELSE IF standardFontData = Malformed
    THEN [mapper |-> NoMapper, err |-> "parse standard font failed"]
  ELSE [mapper |-> [specialFont |-> specialFontData,
                    standardFont |-> standardFontData,
                    concurrent |-> DefaultConcurrent,
                    semCap |-> DefaultConcurrent],
        err |-> "nil"]

\* ------------------------------------------------------------------------
\* State
\* ------------------------------------------------------------------------
VARIABLES
  op,       \* the function a direct call applies
  arg,      \* its arguments
  res,      \* its result, NoResult until the call has run
  g,        \* the mapper: specialFont, standardFont, concurrent
  sem,      \* g.sem: the channel's capacity, buffered elements, closed flag
  wg,       \* g.wg: the WaitGroup counter
  cpc,      \* per caller: where its Mapping call stands
  start,    \* per caller: Mapping's start
  end,      \* per caller: Mapping's end
  i,        \* per caller: the loop variable
  results,  \* per caller: the call's sync.Map
  returned, \* per caller: the call has returned
  ret,      \* per caller: the table it returned
  tasks,    \* the goroutines started: owner, rune, pc
  calls,    \* Mapping calls made so far
  prev      \* the call before the current one, if it returned: bounds, table

pureVars == <<op, arg, res>>
mapVars == <<g, sem, wg, cpc, start, end, i, results, returned, ret, tasks,
             calls, prev>>
vars == <<op, arg, res, g, sem, wg, cpc, start, end, i, results, returned,
          ret, tasks, calls, prev>>

NoResult == [none |-> TRUE]

\* ------------------------------------------------------------------------
\* Fonts and outlines the calls are made on
\* ------------------------------------------------------------------------
Pt(x, y) == [X |-> x, Y |-> y]

\* a glyph with visible bounds and an advance whose outline loads
Good(ends, points) ==
  [ok |-> TRUE, empty |-> FALSE, advance |-> 600, load |-> TRUE,
   Ends |-> ends, Points |-> points]

OutlineA == <<Pt(0, 0), Pt(100, 200)>>
OutlineA10 == <<Pt(10, -10), Pt(110, 190)>>
OutlineA11 == <<Pt(0, 0), Pt(111, 200)>>

\* glyph index -> what the library reports for it
\*   0 .notdef   1 A   2 A moved by 10   3 A with one point moved by 11
\*   4 a placeholder (index, but empty bounds and no advance)
\*   5 a glyph whose outline fails to load
GlyphTable ==
  [ix \in 0..5 |->
     CASE ix = 0 -> Good(<<0>>, <<Pt(0, 0)>>)
       [] ix = 1 -> Good(<<1>>, OutlineA)
       [] ix = 2 -> Good(<<1>>, OutlineA10)
       [] ix = 3 -> Good(<<1>>, OutlineA11)
       [] ix = 4 -> [ok |-> TRUE, empty |-> TRUE, advance |-> 0, load |-> TRUE,
                    Ends |-> <<1>>, Points |-> OutlineA]
       [] OTHER -> [ok |-> TRUE, empty |-> FALSE, advance |-> 600,
                    load |-> FALSE, Ends |-> <<>>, Points |-> <<>>]]

MakeFont(cmap) == [cmap |-> cmap, glyf |-> GlyphTable]

\* standard-side codepoints: just below the range, its first, 0x4E2D, its
\* last, just above it
StdChars == {CandidateStart - 1, CandidateStart, 20013, CandidateEnd,
             CandidateEnd + 1}
StdFonts == {MakeFont(m) : m \in [StdChars -> {0, 1, 4, 5}]}

\* special-side codepoints: one in the Private Use Area, one outside
SpecialChars == {PUAStart, 65}

Mappers ==
  {[specialFont |-> MakeFont(c :> k), standardFont |-> f,
    target |-> c] : c \in SpecialChars, k \in {0, 2, 3, 4, 5}, f \in StdFonts}

MappingRuneInputs ==
  {[g |-> [specialFont |-> m.specialFont, standardFont |-> m.standardFont],
    unicode |-> m.target] : m \in Mappers}

\* hasGlyph: a nil font, or a font with one cmap entry and every combination
\* of the library's three signals
HasGlyphChars == {0, 65, PUAStart - 1, PUAStart, PUAEnd, PUAEnd + 1}
HasGlyphInputs ==
  {[font |-> NilFont, char |-> c] : c \in HasGlyphChars}
  \cup
  {[font |-> [cmap |-> (c :> ix),
              glyf |-> (ix :> [ok |-> k, empty |-> e, advance |-> a,
                              load |-> TRUE, Ends |-> <<>>, Points |-> <<>>])],
    char |-> c] :
     c \in HasGlyphChars, ix \in {0, 7}, k \in BOOLEAN, e \in BOOLEAN,
     a \in {0, 600}}

\* compareGlyphOutlines: outlines of up to MaxPoints points
Points1 == {Pt(0, 0), Pt(1073741824, 0)}
Points2 == {Pt(0, 0), Pt(10, -10), Pt(11, 0), Pt(0, -11), Pt(-1073741824, 0)}
EndsFor(n) ==
  IF n = 0 THEN {<<>>}
  ELSE IF n = 1 THEN {<<0>>}
  ELSE {<<n - 1>>, <<0, n - 1>>}
OutlinesOver(points) ==
  UNION {{[Ends |-> e, Points |-> p] : e \in EndsFor(n), p \in [1..n -> points]} :
           n \in 0..MaxPoints}
CompareInputs ==
  {[buf1 |-> a, buf2 |-> b] : a \in OutlinesOver(Points1),
                              b \in OutlinesOver(Points2)}

\* NewGlyphOutlineMapper: each buffer malformed or one of two fonts
FontData ==
  {Malformed, MakeFont(PUAStart :> 2), MakeFont(20013 :> 1)}
NewInputs ==
  {[specialFontData |-> a, standardFontData |-> b] :
     a \in FontData, b \in FontData}

\* ------------------------------------------------------------------------
\* The mapper the batch calls run on
\* ------------------------------------------------------------------------
\* special font: 0xE000 resolves (to 0x4E2D), 0xE001 has a glyph that matches
\* nothing, 0xE002 is a placeholder; the two largest runes and the smallest
\* one are mapped as well
BatchSpecialFont ==
  MakeFont((PUAStart :> 2) @@ (PUAStart + 1 :> 3) @@ (PUAStart + 2 :> 4)
           @@ (MaxInt32 - 1 :> 2) @@ (MaxInt32 :> 3) @@ (MinInt32 :> 2))

\* standard font: the first candidate fails to load, 0x4E2D and the last
\* candidate both carry outline A
BatchStandardFont ==
  MakeFont((CandidateStart :> 5) @@ (20013 :> 1) @@ (CandidateEnd :> 1))

Callers == {1, 2}

\* Mapping's arguments: ranges of at most MaxDispatch codepoints in the
\* Private Use Area or at the top of the rune type, and start = end + 1
RuneInputs == {PUAStart, PUAStart + 1, PUAStart + 2, MaxInt32 - 1, MaxInt32}
RangeInputs ==
  {r \in RuneInputs \X RuneInputs :
     \/ r[1] <= r[2] /\ r[2] - r[1] < MaxDispatch
     \/ r[1] > r[2] /\ r[1] - r[2] = 1}
\* the ranges two concurrent callers use
ConcurrentRangeInputs ==
  {r \in RangeInputs : r[1] <= r[2] /\ r[2] <= PUAStart + 1}

EmptyTable == [c \in {} |-> 0]

InitMapper ==
  /\ g = NewGlyphOutlineMapper(BatchSpecialFont, BatchStandardFont).mapper
  /\ sem = [cap |-> g.semCap, len |-> 0, closed |-> FALSE]
  /\ wg = 0
  /\ cpc = [c \in Callers |-> "idle"]
  /\ start = [c \in Callers |-> 0]
  /\ end = [c \in Callers |-> 0]
  /\ i = [c \in Callers |-> 0]
  /\ results = [c \in Callers |-> EmptyTable]
  /\ returned = [c \in Callers |-> FALSE]
  /\ ret = [c \in Callers |-> EmptyTable]
  /\ tasks = <<>>
  /\ calls = 0
  /\ prev = [set |-> FALSE, start |-> 0, end |-> 0, table |-> EmptyTable]

\* an unrecovered panic in any goroutine ends the process
Alive == \A c \in Callers : cpc[c] # "panic"
AllIdle == \A c \in Callers : cpc[c] = "idle"

OwnTasks(c) == {t \in 1..Len(tasks) : tasks[t].owner = c}

\* ------------------------------------------------------------------------
\* SetConcurrent
\* ------------------------------------------------------------------------
SetConcurrent(concurrent) ==
  /\ Alive /\ AllIdle
  /\ g' = [g EXCEPT !.concurrent = concurrent, !.semCap = concurrent]
  /\ sem' = [cap |-> concurrent, len |-> 0, closed |-> FALSE]
  /\ UNCHANGED <<wg, cpc, start, end, i, results, returned, ret, tasks, calls,
                 prev>>
  /\ UNCHANGED pureVars

\* ------------------------------------------------------------------------
\* Mapping, the caller's side
\* ------------------------------------------------------------------------
\* entry: results := &sync.Map{}; i := start
CallMapping(c, s, e) ==
  /\ Alive /\ cpc[c] = "idle" /\ calls < MaxCalls
  /\ calls' = calls + 1
  /\ cpc' = [cpc EXCEPT ![c] = "loop"]
  /\ start' = [start EXCEPT ![c] = s]
  /\ end' = [end EXCEPT ![c] = e]
  /\ i' = [i EXCEPT ![c] = s]
  /\ results' = [results EXCEPT ![c] = EmptyTable]
  /\ returned' = [returned EXCEPT ![c] = FALSE]
  /\ ret' = [ret EXCEPT ![c] = EmptyTable]
  /\ tasks' = SelectSeq(tasks, LAMBDA t : t.owner # c)
  /\ prev' = IF returned[c]
               THEN [set |-> TRUE, start |-> start[c], end |-> end[c],
                     table |-> ret[c]]
               ELSE prev
  /\ UNCHANGED <<g, sem, wg>>
  /\ UNCHANGED pureVars

\* i <= end, then g.wg.Add(1); the loop's exit leads to g.wg.Wait()
LoopAdd(c) ==
  /\ Alive /\ cpc[c] = "loop"
  /\ IF i[c] <= end[c]
       THEN /\ Cardinality(OwnTasks(c)) < MaxDispatch
            /\ wg' = wg + 1
            /\ cpc' = [cpc EXCEPT ![c] = "send"]
       ELSE /\ cpc' = [cpc EXCEPT ![c] = "wait"]
            /\ UNCHANGED wg
  /\ UNCHANGED <<g, sem, start, end, i, results, returned, ret, tasks, calls,
                 prev>>
  /\ UNCHANGED pureVars

\* a scheduler that starts the goroutine whether or not a permit is free
SendNoLimit(c) ==
  /\ Alive /\ cpc[c] = "send"
  /\ IF sem.closed
       THEN /\ cpc' = [cpc EXCEPT ![c] = "panic"]
            /\ UNCHANGED <<sem, tasks, i>>
       ELSE /\ sem' = [sem EXCEPT !.len = IF sem.len < sem.cap
                                            THEN sem.len + 1 ELSE sem.len]
            /\ tasks' = Append(tasks, [owner |-> c, rune |-> i[c], pc |-> "run"])
            /\ i' = [i EXCEPT ![c] = Inc32(i[c])]
            /\ cpc' = [cpc EXCEPT ![c] = "loop"]
  /\ UNCHANGED <<g, wg, start, end, results, returned, ret, calls, prev>>
  /\ UNCHANGED pureVars

\* g.sem <- struct{}{}; go func(i rune){...}(i); i++
\* The send panics on a closed channel and blocks while the buffer is full.
Send(c) ==
  /\ Alive /\ cpc[c] = "send"
  /\ IF sem.closed
       THEN /\ cpc' = [cpc EXCEPT ![c] = "panic"]
            /\ UNCHANGED <<sem, tasks, i>>
       ELSE /\ sem.len < sem.cap
            /\ sem' = [sem EXCEPT !.len = sem.len + 1]
            /\ tasks' = Append(tasks, [owner |-> c, rune |-> i[c], pc |-> "run"])
            /\ i' = [i EXCEPT ![c] = Inc32(i[c])]
            /\ cpc' = [cpc EXCEPT ![c] = "loop"]
  /\ UNCHANGED <<g, wg, start, end, results, returned, ret, calls, prev>>
  /\ UNCHANGED pureVars

\* a Wait that returns without waiting for the counter to reach zero
WaitNoBlock(c) ==
  /\ Alive /\ cpc[c] = "wait"
  /\ cpc' = [cpc EXCEPT ![c] = "close"]
  /\ UNCHANGED <<g, sem, wg, start, end, i, results, returned, ret, tasks,
                 calls, prev>>
  /\ UNCHANGED pureVars

\* g.wg.Wait(): returns once the counter is zero
Wait(c) ==
  /\ Alive /\ cpc[c] = "wait"
  /\ wg = 0
  /\ cpc' = [cpc EXCEPT ![c] = "close"]
  /\ UNCHANGED <<g, sem, wg, start, end, i, results, returned, ret, tasks,
                 calls, prev>>
  /\ UNCHANGED pureVars

\* close(g.sem): panics when the channel is closed already
Close(c) ==
  /\ Alive /\ cpc[c] = "close"
  /\ IF sem.closed
       THEN /\ cpc' = [cpc EXCEPT ![c] = "panic"]
            /\ UNCHANGED sem
       ELSE /\ sem' = [sem EXCEPT !.closed = TRUE]
            /\ cpc' = [cpc EXCEPT ![c] = "collect"]
  /\ UNCHANGED <<g, wg, start, end, i, results, returned, ret, tasks, calls,
                 prev>>
  /\ UNCHANGED pureVars

\* results.Range(...) into resultsMap; return resultsMap
Return(c) ==
  /\ Alive /\ cpc[c] = "collect"
  /\ ret' = [ret EXCEPT ![c] = results[c]]
  /\ returned' = [returned EXCEPT ![c] = TRUE]
  /\ cpc' = [cpc EXCEPT ![c] = "idle"]
  /\ UNCHANGED <<g, sem, wg, start, end, i, results, tasks, calls, prev>>
  /\ UNCHANGED pureVars

\* ------------------------------------------------------------------------
\* Mapping, the goroutine started for one codepoint
\* ------------------------------------------------------------------------
\* specialRune, standardRune, ok := g.MappingRune(i); if ok { results.Store }
TaskRun(t) ==
  /\ Alive /\ t \in 1..Len(tasks) /\ tasks[t].pc = "run"
  /\ LET r == MappingRune(g, tasks[t].rune)
         c == tasks[t].owner
     IN  results' = IF r.ok
                      THEN [results EXCEPT ![c] =
                              (r.specialRune :> r.standardRune) @@ results[c]]
                      ELSE results
  /\ tasks' = [tasks EXCEPT ![t].pc = "release"]
  /\ UNCHANGED <<g, sem, wg, cpc, start, end, i, returned, ret, calls, prev>>
  /\ UNCHANGED pureVars

\* the deferred func() { <-g.sem }(), which runs first: a receive takes a
\* buffered element, returns at once on a closed and drained channel, and
\* blocks on an open empty one
TaskRelease(t) ==
  /\ Alive /\ t \in 1..Len(tasks) /\ tasks[t].pc = "release"
  /\ IF sem.len > 0
       THEN sem' = [sem EXCEPT !.len = sem.len - 1]
       ELSE sem.closed /\ UNCHANGED sem
  /\ tasks' = [tasks EXCEPT ![t].pc = "wgdone"]
  /\ UNCHANGED <<g, wg, cpc, start, end, i, results, returned, ret, calls,
                 prev>>
  /\ UNCHANGED pureVars

\* the deferred g.wg.Done(), which runs last
TaskDone(t) ==
  /\ Alive /\ t \in 1..Len(tasks) /\ tasks[t].pc = "wgdone"
  /\ wg' = wg - 1
  /\ tasks' = [tasks EXCEPT ![t].pc = "done"]
  /\ UNCHANGED <<g, sem, cpc, start, end, i, results, returned, ret, calls,
                 prev>>
  /\ UNCHANGED pureVars

\* ------------------------------------------------------------------------
\* One caller making its calls one after another
\* ------------------------------------------------------------------------
InitPureIdle ==
  /\ op = "none" /\ arg = NoResult /\ res = NoResult

Init == InitMapper /\ InitPureIdle

DoSetConcurrent == \E n \in 1..MaxConcurrent : SetConcurrent(n)
DoCallMapping == \E r \in RangeInputs : CallMapping(1, r[1], r[2])
DoLoopAdd == LoopAdd(1)
DoSend == Send(1)
DoWait == Wait(1)
DoClose == Close(1)
DoReturn == Return(1)
DoTaskRun == \E t \in 1..Len(tasks) : TaskRun(t)
DoTaskRelease == \E t \in 1..Len(tasks) : TaskRelease(t)
DoTaskDone == \E t \in 1..Len(tasks) : TaskDone(t)

Next ==
  \/ DoSetConcurrent
  \/ DoCallMapping
  \/ DoLoopAdd
  \/ DoSend
  \/ DoWait
  \/ DoClose
  \/ DoReturn
  \/ DoTaskRun
  \/ DoTaskRelease
  \/ DoTaskDone

Spec == Init /\ [][Next]_vars

\* ------------------------------------------------------------------------
\* Two callers sharing the mapper
\* ------------------------------------------------------------------------
ConcCallMapping ==
  \E c \in Callers, r \in ConcurrentRangeInputs : CallMapping(c, r[1], r[2])
ConcLoopAdd == \E c \in Callers : LoopAdd(c)
ConcSend == \E c \in Callers : Send(c)
ConcWait == \E c \in Callers : Wait(c)
ConcClose == \E c \in Callers : Close(c)
ConcReturn == \E c \in Callers : Return(c)

NextConc ==
  \/ ConcCallMapping
  \/ ConcLoopAdd
  \/ ConcSend
  \/ ConcWait
  \/ ConcClose
  \/ ConcReturn
  \/ DoTaskRun
  \/ DoTaskRelease
  \/ DoTaskDone

SpecConc == Init /\ [][NextConc]_vars

\* ------------------------------------------------------------------------
\* Direct calls of the functions
\* ------------------------------------------------------------------------
InitPure ==
  /\ InitMapper
  /\ res = NoResult
  /\ \/ op = "hasGlyph" /\ arg \in HasGlyphInputs
     \/ op = "compareGlyphOutlines" /\ arg \in CompareInputs
     \/ op = "MappingRune" /\ arg \in MappingRuneInputs
     \/ op = "NewGlyphOutlineMapper" /\ arg \in NewInputs

CallHasGlyph ==
  /\ op = "hasGlyph" /\ res = NoResult
  /\ res' = [ret |-> hasGlyph(arg.font, arg.char)]
  /\ UNCHANGED <<op, arg>>
  /\ UNCHANGED mapVars

CallCompare ==
  /\ op = "compareGlyphOutlines" /\ res = NoResult
  /\ res' = [ret |-> compareGlyphOutlines(arg.buf1, arg.buf2)]
  /\ UNCHANGED <<op, arg>>
  /\ UNCHANGED mapVars

CallMappingRune ==
  /\ op = "MappingRune" /\ res = NoResult
  /\ res' = MappingRune(arg.g, arg.unicode)
  /\ UNCHANGED <<op, arg>>
  /\ UNCHANGED mapVars

CallNew ==
  /\ op = "NewGlyphOutlineMapper" /\ res = NoResult
  /\ res' = NewGlyphOutlineMapper(arg.specialFontData, arg.standardFontData)
  /\ UNCHANGED <<op, arg>>
  /\ UNCHANGED mapVars

NextPure == CallHasGlyph \/ CallCompare \/ CallMappingRune \/ CallNew

SpecPure == InitPure /\ [][NextPure]_vars

\* ------------------------------------------------------------------------
\* Claims about the functions
\* ------------------------------------------------------------------------
Done(o) == op = o /\ res # NoResult

\* The candidates the claim speaks of: codepoints of the range with a usable
\* glyph in the standard font whose outline compares equal to unicode's. A
\* codepoint the cmap does not map has index 0 and no usable glyph.
MatchingCandidates(m, unicode) ==
  {j \in DOMAIN m.standardFont.cmap :
     /\ j >= 19968 /\ j <= 40959
     /\ hasGlyph(m.standardFont, j)
     /\ GlyphOutlineEqual(m, unicode, j).eq}

Lowest(S) == CHOOSE k \in S : \A m \in S : k <= m

\* C5: when the special font has a usable glyph for c, MappingRune(c) returns
\* (c, j, true) with j the lowest codepoint of [0x4E00, 0x9FFF] that has a
\* usable standard glyph whose outline compares equal to c's, and found is
\* false exactly when there is no such candidate.
C5_LowestMatch ==
  (Done("MappingRune") /\ hasGlyph(arg.g.specialFont, arg.unicode)) =>
    LET cands == MatchingCandidates(arg.g, arg.unicode)
    IN  /\ res.ok <=> (cands # {})
        /\ res.ok => /\ res.specialRune = arg.unicode
                     /\ res.standardRune = Lowest(cands)

\* two candidates match, an earlier candidate was tried and rejected, and
\* the lower of the two matches was returned
C5_Witness ==
  /\ Done("MappingRune") /\ res.ok
  /\ Cardinality(MatchingCandidates(arg.g, arg.unicode)) >= 2
  /\ res.standardRune = 20013
  /\ hasGlyph(arg.g.standardFont, CandidateStart)

\* C6: for a non-nil font and a Private Use Area codepoint whose bounds query
\* succeeds, hasGlyph is true whenever advance > 0, or the bounding box is
\* non-empty, or the glyph index is > 0.
C6_AnySignalSuffices ==
  (/\ Done("hasGlyph") /\ arg.font # NilFont
   /\ arg.char >= 57344 /\ arg.char <= 63743
   /\ GlyphBounds(arg.font, arg.char).ok
   /\ \/ GlyphBounds(arg.font, arg.char).advance > 0
      \/ ~GlyphBounds(arg.font, arg.char).empty
      \/ Index(arg.font, arg.char) > 0)
  => res.ret = TRUE

\* |a - b| <= t over the integers, computed without leaving 32 bits
WithinExact(a, b, t) ==
  IF a >= b THEN (b > MaxInt32 - t) \/ (a <= b + t)
  ELSE (a > MaxInt32 - t) \/ (b <= a + t)

SameStructure(b1, b2) ==
  b1.Ends = b2.Ends /\ Len(b1.Points) = Len(b2.Points)

\* C7: for outlines with identical contour end-indices and equal point
\* counts, compareGlyphOutlines is true when every point pair has |dx| <= 10
\* and |dy| <= 10, and false when some pair has |dx| >= 11 or |dy| >= 11.
C7_ToleranceBoundary ==
  (Done("compareGlyphOutlines") /\ SameStructure(arg.buf1, arg.buf2)) =>
    (res.ret <=>
       \A n \in 1..Len(arg.buf1.Points) :
         /\ WithinExact(arg.buf1.Points[n].X, arg.buf2.Points[n].X, 10)
         /\ WithinExact(arg.buf1.Points[n].Y, arg.buf2.Points[n].Y, 10))

\* C8: when hasGlyph(specialFont, c) is false, MappingRune(c) returns
\* found = false at once: no candidate scanned, no outline loaded, the
\* comparator never invoked.
C8_NoScanWithoutGlyph ==
  (Done("MappingRune") /\ ~hasGlyph(arg.g.specialFont, arg.unicode)) =>
    /\ res.ok = FALSE
    /\ res.scanned = 0 /\ res.loads = 0 /\ res.compares = 0

\* the special glyph is a placeholder whose outline a scan would have
\* matched against a standard glyph
C8_Witness ==
  /\ Done("MappingRune") /\ ~hasGlyph(arg.g.specialFont, arg.unicode)
  /\ Index(arg.g.specialFont, arg.unicode) > 0
  /\ MatchingCandidates(arg.g, arg.unicode) # {}
  /\ res.ok = FALSE

\* C9: NewGlyphOutlineMapper returns (mapper, nil) when both buffers parse,
\* (nil, special-font error) when the special buffer is malformed, (nil,
\* standard-font error) when only the standard buffer is malformed, and
\* never a mapper together with an error.
C9_ConstructionErrors ==
  Done("NewGlyphOutlineMapper") =>
    /\ (arg.specialFontData # Malformed /\ arg.standardFontData # Malformed)
         => (res.mapper # NoMapper /\ res.err = "nil"
             /\ res.mapper.specialFont = arg.specialFontData
             /\ res.mapper.standardFont = arg.standardFontData)
    /\ arg.specialFontData = Malformed
         => (res.mapper = NoMapper /\ res.err = "parse special font failed")
    /\ (arg.specialFontData # Malformed /\ arg.standardFontData = Malformed)
         => (res.mapper = NoMapper /\ res.err = "parse standard font failed")
    /\ ~(res.mapper # NoMapper /\ res.err # "nil")

\* only the standard buffer is malformed
C9_Witness ==
  /\ Done("NewGlyphOutlineMapper")
  /\ arg.specialFontData # Malformed /\ arg.standardFontData = Malformed
  /\ res.err = "parse standard font failed"

\* ------------------------------------------------------------------------
\* Claims about the batch mapper
\* ------------------------------------------------------------------------
\* {c -> s : c in [s0, e0] and MappingRune(c) = (c, s, true)}
ExpectedTable(s0, e0) ==
  LET found == {c \in s0..e0 : MappingRune(g, c).ok}
  IN  [c \in found |-> MappingRune(g, c).standardRune]

\* C1: a Mapping call returns only after every goroutine it started has
\* finished, and the table it returns is exactly the found results of the
\* codepoints of [start, end], whatever the interleaving.
C1_ExactTable ==
  \A c \in Callers :
    returned[c] =>
      /\ \A t \in OwnTasks(c) : tasks[t].pc = "done"
      /\ ret[c] = ExpectedTable(start[c], end[c])

\* a three-codepoint call run one goroutine at a time has returned the one
\* result its range holds
C1_Witness ==
  /\ returned[1] /\ g.concurrent = 1
  /\ start[1] = PUAStart /\ end[1] = PUAStart + 2
  /\ Cardinality(OwnTasks(1)) = 3
  /\ ret[1] = (PUAStart :> 20013)

\* goroutines that were started and have not yet given their permit back
InFlight == {t \in 1..Len(tasks) : tasks[t].pc \in {"run", "release"}}

\* C2: the goroutines in flight never outnumber the concurrency limit (10, or
\* the n last passed to SetConcurrent), and the dispatch of the next
\* codepoint is blocked while that many are in flight.
C2_BoundedInFlight ==
  /\ Cardinality(InFlight) <= g.concurrent
  /\ sem.cap = g.concurrent
  /\ \A c \in Callers :
       (cpc[c] = "send" /\ ~sem.closed /\ Cardinality(InFlight) = g.concurrent)
         => ~ENABLED Send(c)

\* the limit is 1, one goroutine is in flight and the caller stands at the
\* send for the next codepoint
C2_Witness ==
  /\ g.concurrent = 1 /\ Cardinality(InFlight) = 1
  /\ cpc[1] = "send" /\ ~sem.closed
  /\ i[1] = start[1] + 1

\* C3: every Mapping call of a sequence made on one mapper runs to completion
\* (none panics), and a call with the same bounds as the call before it
\* returns the same table.
C3_BatchNeverFails ==
  /\ \A c \in Callers : cpc[c] # "panic"
  /\ \A c \in Callers :
       (returned[c] /\ prev.set /\ prev.start = start[c] /\ prev.end = end[c])
         => ret[c] = prev.table

\* C4: for all bounds start <= end, end = 0x7FFFFFFF included, the codepoints
\* resolved by a call are codepoints of [start, end], none is resolved twice,
\* and when the call returns each of them has been resolved.
C4_OneAttemptPerCodepoint ==
  \A c \in Callers :
    LET ran == {t \in OwnTasks(c) : tasks[t].pc # "run"}
    IN  /\ \A t \in ran : start[c] <= tasks[t].rune /\ tasks[t].rune <= end[c]
        /\ \A t1, t2 \in ran : t1 # t2 => tasks[t1].rune # tasks[t2].rune
        /\ returned[c] =>
             \A r \in start[c]..end[c] : \E t \in ran : tasks[t].rune = r

\* C10: two Mapping calls running concurrently on one mapper both complete
\* without a panic, each returning exactly the table of its own range.
C10_ConcurrentCallsIndependent ==
  /\ \A c \in Callers : cpc[c] # "panic"
  /\ \A c \in Callers :
       returned[c] => ret[c] = ExpectedTable(start[c], end[c])

====
